---- MODULE Spec2Model ----
(***************************************************************************)
(* Student-clearance backend: identity store (students, staff/admin        *)
(* users), device registry and the RFID tag-link broker (prepare a         *)
(* PendingTagLink on a device, the device submits the scanned tag).        *)
(*                                                                         *)
(* Every action is one request handler run to completion against the       *)
(* store: the router function together with the crud functions it calls.   *)
(* Timestamps are whole minutes.  Device.last_seen and the columns that    *)
(* no handler reads (names, e-mail, location, password hash, remarks) are  *)
(* not part of the state.  `result` holds the outcome of the last request: *)
(* the HTTP status, the device_logs row the handler appended and the kind  *)
(* of body a scan route answered with.  A device row carries its hardware  *)
(* id and the account it is waiting to link a tag to (registration mode).  *)
(* The clock is read at multiples of the link TTL, so a link is seen at    *)
(* its creation instant and at (or after) its expiry instant.              *)
(* failed_apply_ids is a history variable: the ids of the PendingTagLink   *)
(* rows in the table whose apply has failed in some submit.  It is kept    *)
(* only in the behaviours of SpecHistory (track_failed_apply = TRUE) and   *)
(* no handler reads it.                                                    *)
(*                                                                         *)
(* clearance_statuses maps (student_id, department) to the statuses of the *)
(* rows held for the pair.  keys_issued counts the api keys generated by   *)
(* device registration.  inflight holds the requests that stand between   *)
(* two of their database statements.                                       *)
(*                                                                         *)
(* Spec            tag linking, identity store and devices, one request    *)
(*                 at a time                                               *)
(* SpecHistory     Spec with failed_apply_ids recorded                     *)
(* SpecLedger      identity store and clearance ledger, one request at a   *)
(*                 time, both upsert routes                                *)
(* SpecInterleaved create-student and upsert of crud.py, one database      *)
(*                 statement at a time, with the overall-status readers    *)
(* SpecDevices     device self-registration and key-authenticated scans    *)
(* SpecScan        the three scan routes and create-student by role        *)
(* SpecLinkRace    tag updates, check and write interleaved                *)
(* SpecPrepareRace prepare requests, select and insert interleaved         *)
(* SpecUsers       accounts created, updated and deleted                   *)
(***************************************************************************)
EXTENDS Integers, FiniteSets, Sequences, TLC

\* ---------------------------------------------------------------- bounds
StudentIds == {"s1", "s2"}
Usernames == {"admin", "u2"}
Tags == {"t1"}
DevicePks == {"d1", "d2", "d3"}
MaxTime == 5
MaxLinks == 2
MaxInflight == 2
MaxKeys == 3

\* ------------------------------------------------------- program constants
ExpiresInMinutes == 5

None == "None"
STUDENT == "student"
STAFF == "staff"
ADMIN == "admin"
STAFF_ADMIN == "staff_admin"
NOT_COMPLETED == "NOT_COMPLETED"
COMPLETED == "COMPLETED"
PENDING == "PENDING"
ClearanceStatusEnum == {COMPLETED, NOT_COMPLETED, PENDING}
OverallClearanceStatusEnum == {COMPLETED, PENDING}
ClearanceDepartment == {"Departmental", "Library", "Bursary", "Alumni"}
UserRole == {STUDENT, STAFF, ADMIN}
TargetUserType == {STUDENT, STAFF_ADMIN}

\* api keys presented by callers: one per device row, and one that no row has
ApiKeyOf(pk) == IF pk = "d1" THEN "k1" ELSE IF pk = "d2" THEN "k2" ELSE "k3"
InactiveDevices == {"d3"}
ApiKeys == {ApiKeyOf(pk) : pk \in DevicePks} \cup {"bad"}

VARIABLES students, users, clearance_statuses, devices, pending_tag_links,
          next_link_id, now, result,
          failed_apply_ids, track_failed_apply,  \* history, read by no handler
          keys_issued,                           \* api keys generated so far
          inflight                               \* requests between two commits

vars == <<students, users, clearance_statuses, devices, pending_tag_links,
          next_link_id, now, result, failed_apply_ids, track_failed_apply,
          keys_issued, inflight>>

identity == <<students, users>>
history == <<failed_apply_ids, track_failed_apply>>

\* ------------------------------------------------------------ store reads
Put(f, k, v) == [x \in (DOMAIN f) \cup {k} |-> IF x = k THEN v ELSE f[x]]
Drop(f, k) == [x \in (DOMAIN f) \ {k} |-> f[x]]

get_student_by_student_id(student_id) ==
    IF student_id \in DOMAIN students THEN student_id ELSE None

students_with_tag(tag_id) == {s \in DOMAIN students : students[s].tag_id = tag_id}
users_with_tag(tag_id) == {u \in DOMAIN users : users[u].tag_id = tag_id}

get_student_by_tag_id(tag_id) ==
    IF students_with_tag(tag_id) = {} THEN None
    ELSE CHOOSE s \in students_with_tag(tag_id) : TRUE

get_user_by_tag_id(tag_id) ==
    IF users_with_tag(tag_id) = {} THEN None
    ELSE CHOOSE u \in users_with_tag(tag_id) : TRUE

get_user_by_username(username) ==
    IF username \in DOMAIN users THEN username ELSE None

is_tag_id_unique_among_users(tag_id) == users_with_tag(tag_id) = {}

is_tag_id_unique(tag_id) ==
    users_with_tag(tag_id) = {} /\ students_with_tag(tag_id) = {}

get_device_by_pk(pk) == IF pk \in DOMAIN devices THEN pk ELSE None

devices_with_key(api_key) == {d \in DOMAIN devices : devices[d].api_key = api_key}

get_device_by_api_key(api_key) ==
    IF devices_with_key(api_key) = {} THEN None
    ELSE CHOOSE d \in devices_with_key(api_key) : TRUE

active_links_ignoring_expiry(device_pk) ==
    {l \in pending_tag_links : l.device_pk = device_pk}

\* the unexpired links of a device
active_links(device_pk) ==
    {l \in pending_tag_links : l.device_pk = device_pk /\ l.expires_at > now}

get_pending_tag_link_ignoring_expiry(device_pk) ==
    {l \in pending_tag_links :
        /\ l.device_pk = device_pk
        /\ \A m \in pending_tag_links : m.device_pk = device_pk => m.id <= l.id}

\* Optional[PendingTagLink] as a set of at most one row: the newest unexpired
\* link of the device (ids are handed out in creation order)
get_pending_tag_link_by_device_api_key(device_pk) ==
    {l \in active_links(device_pk) : \A m \in active_links(device_pk) : m.id <= l.id}

delete_pending_tag_link_noop(pending_link_id) == pending_tag_links

delete_pending_tag_link(pending_link_id) ==
    {l \in pending_tag_links : l.id # pending_link_id}

\* ------------------------------------------------------------ access gate
\* 0 when the bearer token's user passes the guard, else the status raised
get_current_active_user(caller) ==
    IF get_user_by_username(caller) = None THEN 401
    ELSE IF ~users[caller].is_active THEN 400
    ELSE 0

get_current_active_admin_user_any_role(caller) == get_current_active_user(caller)

get_current_active_admin_user_from_token(caller) ==
    IF get_current_active_user(caller) # 0 THEN get_current_active_user(caller)
    ELSE IF users[caller].role # ADMIN THEN 403
    ELSE 0

get_verified_device(x_api_key) ==
    IF get_device_by_api_key(x_api_key) = None THEN 401
    ELSE IF ~devices[get_device_by_api_key(x_api_key)].is_active THEN 403
    ELSE 0

NoLog == "no_log"
Result(op, status, log) == [op |-> op, status |-> status, log |-> log, device |-> None, body |-> None]
DeviceResult(op, status, log, device_pk) ==
    [op |-> op, status |-> status, log |-> log, device |-> device_pk, body |-> None]
\* the answer of a scan: body is the kind of response model returned
ScanResult(op, status, log, body) ==
    [op |-> op, status |-> status, log |-> log, device |-> None, body |-> body]
CLEARANCE_DETAIL == "clearance_detail"
USER_PROFILE == "user_profile"
LINK_SUCCESS == "link_success"
USER == "user"

\* ------------------------------------------------------------------- Init
InitStore ==
    /\ students = <<>>
    /\ users = [u \in {"admin"} |->
                  [role |-> ADMIN, department |-> None, tag_id |-> None, is_active |-> TRUE]]
    /\ clearance_statuses = <<>>
    /\ devices = [pk \in DevicePks |->
                    [api_key |-> ApiKeyOf(pk), is_active |-> pk \notin InactiveDevices,
                     device_id |-> pk,
                     link_for_user_id |-> None, link_for_user_type |-> None]]
    /\ pending_tag_links = {}
    /\ next_link_id = 1
    /\ now = 0
    /\ result = Result("init", 0, NoLog)
    /\ failed_apply_ids = {}
    /\ keys_issued = 0
    /\ inflight = <<>>

Init == InitStore /\ track_failed_apply = FALSE

InitHistory == InitStore /\ track_failed_apply = TRUE

\* ----------------------------------------------------------- identity store
\* A clearance_statuses table maps (student_id, department) to the statuses
\* of the rows it holds for that pair, oldest first; a pair without a row is
\* not in its domain.
rows_of(table, student_id, department) ==
    IF <<student_id, department>> \in DOMAIN table
    THEN table[<<student_id, department>>] ELSE <<>>

uq_student_department_dropped(table, student_id, department) == TRUE

\* the unique constraint of the table: may a row for the pair be inserted
uq_student_department(table, student_id, department) ==
    rows_of(table, student_id, department) = <<>>

insert_clearance_status(table, student_id, department, status) ==
    Put(table, <<student_id, department>>,
        Append(rows_of(table, student_id, department), status))

\* the departments in the order the loop inserts them
DepartmentOrder == <<"Departmental", "Library", "Bursary", "Alumni">>

RECURSIVE initialize_from(_, _, _)
\* the table after the inserts for departments i.. , stopping at the first
\* insert the constraint refuses; ok tells whether all of them went through
initialize_from(table, student_id, i) ==
    IF i > Len(DepartmentOrder) THEN [table |-> table, ok |-> TRUE]
    ELSE IF ~uq_student_department(table, student_id, DepartmentOrder[i])
    THEN [table |-> table, ok |-> FALSE]
    ELSE initialize_from(
            insert_clearance_status(table, student_id, DepartmentOrder[i], NOT_COMPLETED),
            student_id, i + 1)

initialize_student_clearance_statuses_first_only(student_id) ==
    initialize_from(clearance_statuses, student_id, Len(DepartmentOrder))

initialize_student_clearance_statuses(student_id) ==
    initialize_from(clearance_statuses, student_id, 1)

\* the new tag is looked up with `tag_id == value`; for a student created
\* without a tag the value is None and the lookup matches the untagged rows
create_student(student_id, tag_id) ==
    /\ IF get_student_by_student_id(student_id) # None
       THEN /\ result' = Result("create_student", 400, NoLog)
            /\ UNCHANGED <<students, clearance_statuses>>
       ELSE IF get_student_by_tag_id(tag_id) # None
       THEN /\ result' = Result("create_student", 400, NoLog)
            /\ UNCHANGED <<students, clearance_statuses>>
       ELSE /\ students' = Put(students, student_id, [tag_id |-> tag_id])
            /\ clearance_statuses' = initialize_student_clearance_statuses(student_id).table
            /\ result' = Result("create_student",
                                IF initialize_student_clearance_statuses(student_id).ok
                                THEN 201 ELSE 500, NoLog)
    /\ UNCHANGED <<users, devices, pending_tag_links, next_link_id, now, history, keys_issued, inflight>>

\* POST /api/students/ of the routers: every route of the students router
\* depends on get_current_active_admin_user_from_token
create_student_endpoint(caller, student_id, tag_id) ==
    IF get_current_active_admin_user_from_token(caller) # 0
    THEN /\ result' = Result("create_student_endpoint",
                             get_current_active_admin_user_from_token(caller), NoLog)
         /\ UNCHANGED <<students, users, clearance_statuses, devices, pending_tag_links,
                        next_link_id, now, history, keys_issued, inflight>>
    ELSE create_student(student_id, tag_id)

cascade_clearance_statuses_none(student_id) == clearance_statuses

\* the rows that go with a deleted student
cascade_clearance_statuses(student_id) ==
    [k \in {x \in DOMAIN clearance_statuses : x[1] # student_id} |-> clearance_statuses[k]]

delete_student(student_id) ==
    /\ IF get_student_by_student_id(student_id) = None
       THEN /\ result' = Result("delete_student", 404, NoLog)
            /\ UNCHANGED <<students, users, clearance_statuses>>
       ELSE /\ users' = IF student_id \in DOMAIN users THEN Drop(users, student_id)
                        ELSE users
            /\ students' = Drop(students, student_id)
            /\ clearance_statuses' = cascade_clearance_statuses(student_id)
            /\ result' = Result("delete_student", 200, NoLog)
    /\ UNCHANGED <<devices, pending_tag_links, next_link_id, now, history, keys_issued, inflight>>

create_user(username, role, department, tag_id, is_active) ==
    IF get_user_by_username(username) # None THEN
        /\ result' = Result("create_user", 400, NoLog)
        /\ UNCHANGED users
    ELSE IF tag_id # None /\ get_user_by_tag_id(tag_id) # None THEN
        /\ result' = Result("create_user", 400, NoLog)
        /\ UNCHANGED users
    ELSE
        /\ users' = Put(users, username,
                        [role |-> role, department |-> department,
                         tag_id |-> tag_id, is_active |-> is_active])
        /\ result' = Result("create_user", 201, NoLog)

register_user(username, role, department, tag_id, is_active) ==
    /\ IF role \notin {STAFF, ADMIN}
       THEN /\ result' = Result("create_user", 400, NoLog)
            /\ UNCHANGED users
       ELSE create_user(username, role, department, tag_id, is_active)
    /\ UNCHANGED <<students, clearance_statuses, devices, pending_tag_links,
                   next_link_id, now, history, keys_issued, inflight>>

\* ----------------------------------------------- admin tag update endpoints
update_student_tag_id_same_tag_accepted(student_id, new_tag_id) ==
    IF /\ get_student_by_student_id(student_id) # None
       /\ students[student_id].tag_id = new_tag_id THEN
        /\ result' = Result("link_student_tag", 200, NoLog)
        /\ UNCHANGED students
    ELSE IF ~is_tag_id_unique(new_tag_id) THEN
        /\ result' = Result("link_student_tag", 409, NoLog)
        /\ UNCHANGED students
    ELSE IF get_student_by_student_id(student_id) # None THEN
        /\ students' = [students EXCEPT ![student_id].tag_id = new_tag_id]
        /\ result' = Result("link_student_tag", 200, NoLog)
    ELSE
        /\ result' = Result("link_student_tag", 500, NoLog)
        /\ UNCHANGED students

update_student_tag_id(student_id, new_tag_id) ==
    IF ~is_tag_id_unique(new_tag_id) THEN
        /\ result' = Result("link_student_tag", 409, NoLog)
        /\ UNCHANGED students
    ELSE IF get_student_by_student_id(student_id) # None THEN
        /\ students' = [students EXCEPT ![student_id].tag_id = new_tag_id]
        /\ result' = Result("link_student_tag", 200, NoLog)
    ELSE
        \* None is returned and the response model rejects it
        /\ result' = Result("link_student_tag", 500, NoLog)
        /\ UNCHANGED students

link_student_tag_endpoint(caller, student_id, tag_id) ==
    /\ IF get_current_active_admin_user_from_token(caller) # 0
       THEN /\ result' = Result("link_student_tag",
                                get_current_active_admin_user_from_token(caller), NoLog)
            /\ UNCHANGED students
       ELSE update_student_tag_id(student_id, tag_id)
    /\ UNCHANGED <<users, clearance_statuses, devices, pending_tag_links,
                   next_link_id, now, history, keys_issued, inflight>>

update_user_tag_id(username, new_tag_id) ==
    IF get_user_by_tag_id(new_tag_id) # None THEN
        /\ result' = Result("link_user_tag", 400, NoLog)
        /\ UNCHANGED users
    ELSE IF get_user_by_username(username) = None THEN
        /\ result' = Result("link_user_tag", 404, NoLog)
        /\ UNCHANGED users
    ELSE
        /\ users' = [users EXCEPT ![username].tag_id = new_tag_id]
        /\ result' = Result("link_user_tag", 200, NoLog)

link_user_tag_endpoint(caller, username, tag_id) ==
    /\ IF get_current_active_admin_user_from_token(caller) # 0
       THEN /\ result' = Result("link_user_tag",
                                get_current_active_admin_user_from_token(caller), NoLog)
            /\ UNCHANGED users
       ELSE update_user_tag_id(username, tag_id)
    /\ UNCHANGED <<students, clearance_statuses, devices, pending_tag_links,
                   next_link_id, now, history, keys_issued, inflight>>

\* ---------------------------------------------------------- tag-link broker
check_target_assuming_exists(target_user_type, target_identifier) ==
    IF target_user_type = STUDENT THEN
        IF /\ get_student_by_student_id(target_identifier) # None
           /\ students[target_identifier].tag_id # None THEN 409
        ELSE 0
    ELSE 404

\* 0 when the target may be linked, else the status raised
check_target(target_user_type, target_identifier) ==
    IF target_user_type = STUDENT THEN
        IF get_student_by_student_id(target_identifier) = None THEN 404
        ELSE IF students[target_identifier].tag_id # None THEN 409
        ELSE 0
    ELSE IF target_user_type = STAFF_ADMIN THEN
        \* the user is looked up by the tag column, not by username
        IF get_user_by_tag_id(target_identifier) = None THEN 404
        ELSE IF users[get_user_by_tag_id(target_identifier)].tag_id # None THEN 409
        ELSE 0
    ELSE 400

device_busy_never(device_pk) == FALSE

device_busy(device_pk) == active_links(device_pk) # {}

create_pending_tag_link(device_pk, target_user_type, target_identifier, initiated_by_user_id) ==
    IF get_device_by_pk(device_pk) = None \/ ~devices[device_pk].is_active THEN
        /\ result' = Result("prepare", 404, NoLog)
        /\ UNCHANGED <<pending_tag_links, next_link_id>>
    ELSE IF check_target(target_user_type, target_identifier) # 0 THEN
        /\ result' = Result("prepare", check_target(target_user_type, target_identifier), NoLog)
        /\ UNCHANGED <<pending_tag_links, next_link_id>>
    ELSE IF device_busy(device_pk) THEN
        /\ result' = Result("prepare", 409, NoLog)
        /\ UNCHANGED <<pending_tag_links, next_link_id>>
    ELSE
        /\ next_link_id <= MaxLinks
        /\ pending_tag_links' = pending_tag_links \cup
             {[id |-> next_link_id,
               device_pk |-> device_pk,
               target_user_type |-> target_user_type,
               target_identifier |-> target_identifier,
               initiated_by_user_id |-> initiated_by_user_id,
               expires_at |-> now + ExpiresInMinutes]}
        /\ next_link_id' = next_link_id + 1
        /\ result' = Result("prepare", 202, NoLog)

prepare_device_for_tag_linking_admin(caller, device_identifier, target_user_type, target_identifier) ==
    /\ IF get_current_active_admin_user_from_token(caller) # 0 THEN
           /\ result' = Result("prepare",
                               get_current_active_admin_user_from_token(caller), NoLog)
           /\ UNCHANGED <<pending_tag_links, next_link_id>>
       ELSE IF get_device_by_pk(device_identifier) = None THEN
           /\ result' = Result("prepare", 404, NoLog)
           /\ UNCHANGED <<pending_tag_links, next_link_id>>
       ELSE IF ~devices[device_identifier].is_active THEN
           /\ result' = Result("prepare", 400, NoLog)
           /\ UNCHANGED <<pending_tag_links, next_link_id>>
       ELSE create_pending_tag_link(device_identifier, target_user_type,
                                    target_identifier, caller)
    /\ UNCHANGED <<students, users, clearance_statuses, devices, now, history, keys_issued, inflight>>

\* submit, no unexpired link for the device (devices.py:134-139)
submit_no_pending(device_pk) ==
    /\ result' = DeviceResult("submit", 404, "submit_tag_failed_no_pending", device_pk)
    /\ UNCHANGED <<students, users, pending_tag_links, failed_apply_ids>>

submit_tag_conflict_keeping_link(device_pk, link) ==
    /\ result' = DeviceResult("submit", 409, "submit_tag_failed_tag_conflict", device_pk)
    /\ UNCHANGED <<students, users, pending_tag_links, failed_apply_ids>>

\* submit, the scanned tag is already linked somewhere (devices.py:156-162)
submit_tag_conflict(device_pk, link) ==
    /\ pending_tag_links' = delete_pending_tag_link(link.id)
    /\ failed_apply_ids' = failed_apply_ids \ {link.id}
    /\ result' = DeviceResult("submit", 409, "submit_tag_failed_tag_conflict", device_pk)
    /\ UNCHANGED <<students, users>>

\* submit, the tag write and what follows it (devices.py:164-210)
submit_apply(device_pk, link, scanned_tag_id) ==
    IF ~is_tag_id_unique(scanned_tag_id) THEN
        \* 409 raised by the update itself: logged, link left in place
        /\ result' = DeviceResult("submit", 409, "submit_tag_failed_update_error", device_pk)
        /\ failed_apply_ids' = IF track_failed_apply THEN failed_apply_ids \cup {link.id}
                                ELSE failed_apply_ids
        /\ UNCHANGED <<students, users, pending_tag_links>>
    ELSE IF (IF link.target_user_type = STUDENT
             THEN get_student_by_student_id(link.target_identifier) = None
             ELSE get_user_by_username(link.target_identifier) = None) THEN
        \* the update found no row and returned None: link left in place
        /\ result' = DeviceResult("submit", 500, "submit_tag_failed_unexpected_error", device_pk)
        /\ failed_apply_ids' = IF track_failed_apply THEN failed_apply_ids \cup {link.id}
                                ELSE failed_apply_ids
        /\ UNCHANGED <<students, users, pending_tag_links>>
    ELSE
        /\ IF link.target_user_type = STUDENT
           THEN /\ students' = [students EXCEPT ![link.target_identifier].tag_id = scanned_tag_id]
                /\ UNCHANGED users
           ELSE /\ users' = [users EXCEPT ![link.target_identifier].tag_id = scanned_tag_id]
                /\ UNCHANGED students
        /\ pending_tag_links' = delete_pending_tag_link(link.id)
        /\ failed_apply_ids' = failed_apply_ids \ {link.id}
        /\ result' = DeviceResult("submit", 200, "tag_linked", device_pk)

submit_scanned_tag_endpoint(x_api_key, scanned_tag_id) ==
    /\ IF get_verified_device(x_api_key) # 0 THEN
           /\ result' = Result("submit", get_verified_device(x_api_key), NoLog)
           /\ UNCHANGED <<students, users, pending_tag_links, failed_apply_ids>>
       ELSE LET device_pk == get_device_by_api_key(x_api_key)
                pending == get_pending_tag_link_by_device_api_key(device_pk)
                pending_link_orm == CHOOSE l \in pending : TRUE
            IN IF pending = {} THEN submit_no_pending(device_pk)
               ELSE IF ~is_tag_id_unique(scanned_tag_id)
                    THEN submit_tag_conflict(device_pk, pending_link_orm)
                    ELSE submit_apply(device_pk, pending_link_orm, scanned_tag_id)
    /\ UNCHANGED <<clearance_statuses, devices, next_link_id, now, track_failed_apply,
                   keys_issued, inflight>>

scan_tag_endpoint(x_api_key, payload_device_id, tag_id) ==
    /\ IF get_verified_device(x_api_key) # 0 THEN
           result' = Result("scan", get_verified_device(x_api_key), NoLog)
       ELSE IF devices[get_device_by_api_key(x_api_key)].device_id # payload_device_id THEN
           result' = Result("scan", 403, "scan_error_device_id_mismatch")
       ELSE IF get_student_by_tag_id(tag_id) # None THEN
           result' = ScanResult("scan", 200, "scan_student_clearance", CLEARANCE_DETAIL)
       ELSE
           result' = Result("scan", 404, "scan_failed_not_student_tag")
    /\ UNCHANGED <<students, users, clearance_statuses, devices,
                   pending_tag_links, next_link_id, now, history, keys_issued, inflight>>

\* ------------------------------------------------------ device registration
\* secrets.token_hex: the n-th key generated, different from every key
\* generated or configured before
token_hex(n) == "g" \o ToString(n)

\* secrets.token_urlsafe, likewise
token_urlsafe(n) == "u" \o ToString(n)

\* the rows of a hardware id
devices_with_device_id(device_id) ==
    {pk \in DOMAIN devices : devices[pk].device_id = device_id}

\* the primary key the table gives the next row (no device row is deleted)
new_device_pk == "d" \o ToString(Cardinality(DOMAIN devices) + 1)

register_device_key_kept(device_id) ==
    /\ keys_issued < MaxKeys
    /\ devices' = IF devices_with_device_id(device_id) # {} THEN devices
                  ELSE Put(devices, new_device_pk,
                           [api_key |-> token_hex(keys_issued + 1), is_active |-> TRUE,
                            device_id |-> device_id,
                            link_for_user_id |-> None, link_for_user_type |-> None])
    /\ keys_issued' = keys_issued + 1
    /\ result' = DeviceResult("register_device", 200, token_hex(keys_issued + 1), device_id)
    /\ UNCHANGED <<students, users, clearance_statuses, pending_tag_links,
                   next_link_id, now, history, inflight>>

\* POST /api/devices/register: a known device_id has its api_key replaced by
\* a newly generated one, an unknown one gets a row; the key is returned
register_device(device_id) ==
    /\ keys_issued < MaxKeys
    /\ devices' = IF devices_with_device_id(device_id) # {}
                  THEN [pk \in DOMAIN devices |->
                          IF devices[pk].device_id = device_id
                          THEN [devices[pk] EXCEPT !.api_key = token_hex(keys_issued + 1)]
                          ELSE devices[pk]]
                  ELSE Put(devices, new_device_pk,
                           [api_key |-> token_hex(keys_issued + 1), is_active |-> TRUE,
                            device_id |-> device_id,
                            link_for_user_id |-> None, link_for_user_type |-> None])
    /\ keys_issued' = keys_issued + 1
    /\ result' = DeviceResult("register_device", 200, token_hex(keys_issued + 1), device_id)
    /\ UNCHANGED <<students, users, clearance_statuses, pending_tag_links,
                   next_link_id, now, history, inflight>>

uq_device_id_dropped(device_id) == TRUE

\* the unique constraint on Device.device_id: may a row with this hardware id
\* be inserted (any number of rows may have none)
uq_device_id(device_id) ==
    device_id = None \/ devices_with_device_id(device_id) = {}

\* crud.create_device: generate a key, add the row and commit; the commit
\* fails when the constraint refuses the row
create_device(device_id) ==
    /\ keys_issued < MaxKeys
    /\ keys_issued' = keys_issued + 1
    /\ IF uq_device_id(device_id) THEN
           /\ devices' = Put(devices, new_device_pk,
                             [api_key |-> token_urlsafe(keys_issued + 1), is_active |-> TRUE,
                              device_id |-> device_id,
                              link_for_user_id |-> None, link_for_user_type |-> None])
           /\ result' = DeviceResult("create_device", 201, token_urlsafe(keys_issued + 1),
                                     new_device_pk)
       ELSE
           /\ result' = Result("create_device", 500, NoLog)
           /\ UNCHANGED devices
    /\ UNCHANGED <<students, users, clearance_statuses, pending_tag_links,
                   next_link_id, now, history, inflight>>

\* POST /api/admin/devices/: the handler passes device_data= to a function
\* whose parameter is named device, so the call itself fails and the request
\* ends in 500 before anything is generated or written
register_new_device_admin(caller, device_id) ==
    /\ result' = IF get_current_active_admin_user_from_token(caller) # 0
                 THEN Result("register_device_admin",
                             get_current_active_admin_user_from_token(caller), NoLog)
                 ELSE Result("register_device_admin", 500, NoLog)
    /\ UNCHANGED <<students, users, clearance_statuses, devices, pending_tag_links,
                   next_link_id, now, history, keys_issued, inflight>>

\* POST /api/scan of main.py: the key is verified, the scan is logged with
\* the payload's device id and tag before the tag is looked up, and only a
\* student's tag gets an answer
scan_tag(api_key, payload_device_id, tag_id) ==
    /\ IF get_device_by_api_key(api_key) = None THEN
           result' = Result("scan_main", 401, NoLog)
       ELSE IF get_student_by_tag_id(tag_id) = None THEN
           result' = Result("scan_main", 404, "scan")
       ELSE
           result' = ScanResult("scan_main", 200, "scan", CLEARANCE_DETAIL)
    /\ UNCHANGED <<students, users, clearance_statuses, devices,
                   pending_tag_links, next_link_id, now, history, keys_issued, inflight>>

\* the registration mode of a device: the user the next scanned tag is for
set_device_link_for_user(device_id, user_type, user_id) ==
    /\ devices_with_device_id(device_id) # {}
    /\ devices' = [pk \in DOMAIN devices |->
                     IF devices[pk].device_id = device_id
                     THEN [devices[pk] EXCEPT !.link_for_user_id = user_id,
                                              !.link_for_user_type = user_type]
                     ELSE devices[pk]]
    /\ result' = Result("set_link_for_user", 200, NoLog)
    /\ UNCHANGED <<students, users, clearance_statuses, pending_tag_links,
                   next_link_id, now, history, keys_issued, inflight>>

clear_device_link_for_user(device_id) ==
    [pk \in DOMAIN devices |->
        IF devices[pk].device_id = device_id
        THEN [devices[pk] EXCEPT !.link_for_user_id = None, !.link_for_user_type = None]
        ELSE devices[pk]]

\* POST /api/rfid/scan: the device is looked up by the id in the payload; in
\* registration mode the tag is written to the user the device was prepared
\* for, otherwise the tag is looked up among students, then users
handle_rfid_scan(device_id, tag_id) ==
    /\ IF devices_with_device_id(device_id) = {} THEN
           /\ result' = Result("rfid_scan", 404, NoLog)
           /\ UNCHANGED <<students, users, devices>>
       ELSE LET device == devices[CHOOSE pk \in devices_with_device_id(device_id) : TRUE]
            IN IF device.link_for_user_id # None /\ device.link_for_user_type # None THEN
                   IF device.link_for_user_type = STUDENT THEN
                       IF ~is_tag_id_unique(tag_id) THEN
                           /\ result' = Result("rfid_scan", 409, NoLog)
                           /\ UNCHANGED <<students, users, devices>>
                       ELSE
                           /\ students' =
                                IF get_student_by_student_id(device.link_for_user_id) # None
                                THEN [students EXCEPT ![device.link_for_user_id].tag_id = tag_id]
                                ELSE students
                           /\ devices' = clear_device_link_for_user(device_id)
                           /\ result' = ScanResult("rfid_scan", 200, NoLog, LINK_SUCCESS)
                           /\ UNCHANGED users
                   ELSE IF device.link_for_user_type = USER THEN
                       IF ~is_tag_id_unique(tag_id) THEN
                           /\ result' = Result("rfid_scan", 409, NoLog)
                           /\ UNCHANGED <<students, users, devices>>
                       ELSE
                           /\ users' =
                                IF get_user_by_username(device.link_for_user_id) # None
                                THEN [users EXCEPT ![device.link_for_user_id].tag_id = tag_id]
                                ELSE users
                           /\ devices' = clear_device_link_for_user(device_id)
                           /\ result' = ScanResult("rfid_scan", 200, NoLog, LINK_SUCCESS)
                           /\ UNCHANGED students
                   ELSE
                       /\ devices' = clear_device_link_for_user(device_id)
                       /\ result' = ScanResult("rfid_scan", 200, NoLog, LINK_SUCCESS)
                       /\ UNCHANGED <<students, users>>
               ELSE
                   /\ result' =
                        IF get_student_by_tag_id(tag_id) # None
                        THEN ScanResult("rfid_scan", 200, NoLog, CLEARANCE_DETAIL)
                        ELSE IF get_user_by_tag_id(tag_id) # None
                        THEN ScanResult("rfid_scan", 200, NoLog, USER_PROFILE)
                        ELSE Result("rfid_scan", 404, NoLog)
                   /\ UNCHANGED <<students, users, devices>>
    /\ UNCHANGED <<clearance_statuses, pending_tag_links, next_link_id, now, history,
                   keys_issued, inflight>>

Tick ==
    /\ now + ExpiresInMinutes <= MaxTime
    /\ now' = now + ExpiresInMinutes
    /\ result' = Result("tick", 0, NoLog)
    /\ UNCHANGED <<students, users, clearance_statuses, devices,
                   pending_tag_links, next_link_id, history, keys_issued, inflight>>

\* --------------------------------------------------------- clearance ledger
\* the rows of a student: (department, position among the pair's rows, status)
get_clearance_statuses_by_student_id(student_id) ==
    UNION {{[department |-> k[2], n |-> i, status |-> clearance_statuses[k][i]] :
               i \in 1..Len(clearance_statuses[k])} :
           k \in {x \in DOMAIN clearance_statuses : x[1] = student_id}}

\* tag-header gate: 0 when the tag is that of a staff or admin user, else the
\* status raised; the tag is looked up among the students first
get_current_staff_or_admin_via_tag(tag_id) ==
    IF get_student_by_tag_id(tag_id) # None THEN 403
    ELSE IF get_user_by_tag_id(tag_id) = None THEN 404
    ELSE IF users[get_user_by_tag_id(tag_id)].role \notin {STAFF, ADMIN} THEN 403
    ELSE IF ~users[get_user_by_tag_id(tag_id)].is_active THEN 400
    ELSE 0

verify_department_access_any_staff(user_role, user_department, target_department) ==
    user_role \in {ADMIN, STAFF}

verify_department_access(user_role, user_department, target_department) ==
    IF user_role = ADMIN THEN TRUE
    ELSE IF user_role = STAFF THEN user_department = target_department
    ELSE FALSE

\* update the rows of the pair in place when there is one, else insert a row
create_or_update_clearance_status(student_id, department, status) ==
    IF rows_of(clearance_statuses, student_id, department) # <<>>
    THEN [clearance_statuses EXCEPT ![<<student_id, department>>] =
             [i \in DOMAIN @ |-> status]]
    ELSE insert_clearance_status(clearance_statuses, student_id, department, status)

\* POST /api/clearance/ of the routers (tag-header gate, department scope)
update_clearance_status_endpoint(tag_id, student_id, department, status) ==
    /\ IF get_current_staff_or_admin_via_tag(tag_id) # 0 THEN
           /\ result' = Result("update_clearance", get_current_staff_or_admin_via_tag(tag_id), NoLog)
           /\ UNCHANGED clearance_statuses
       ELSE IF get_student_by_student_id(student_id) = None THEN
           /\ result' = Result("update_clearance", 404, NoLog)
           /\ UNCHANGED clearance_statuses
       ELSE IF ~verify_department_access(users[get_user_by_tag_id(tag_id)].role,
                                         users[get_user_by_tag_id(tag_id)].department,
                                         department) THEN
           /\ result' = Result("update_clearance", 403, NoLog)
           /\ UNCHANGED clearance_statuses
       ELSE
           /\ clearance_statuses' = create_or_update_clearance_status(student_id, department, status)
           /\ result' = Result("update_clearance", 200, NoLog)
    /\ UNCHANGED <<students, users, devices, pending_tag_links, next_link_id, now,
                   history, keys_issued, inflight>>

\* POST /api/clearance/ of main.py: the handler takes no credential, so the
\* tag header a caller sends is not looked at
update_clearance_status(tag_id, student_id, department, status) ==
    /\ IF get_student_by_student_id(student_id) = None THEN
           /\ result' = Result("update_clearance_main", 404, NoLog)
           /\ UNCHANGED clearance_statuses
       ELSE
           /\ clearance_statuses' = create_or_update_clearance_status(student_id, department, status)
           /\ result' = Result("update_clearance_main", 200, NoLog)
    /\ UNCHANGED <<students, users, devices, pending_tag_links, next_link_id, now,
                   history, keys_issued, inflight>>

\* ------------------------------------------------ overall clearance status
\* routers/students.py: COMPLETED unless there is no row or some row is not
\* COMPLETED
format_student_clearance_details_response(student_id) ==
    IF get_clearance_statuses_by_student_id(student_id) = {} THEN PENDING
    ELSE IF \E row \in get_clearance_statuses_by_student_id(student_id) :
                row.status # COMPLETED THEN PENDING
    ELSE COMPLETED

\* routers/devices.py, the answer to a scan of a student's tag
format_clearance_for_device_scan(student_id) ==
    IF get_clearance_statuses_by_student_id(student_id) = {} THEN PENDING
    ELSE IF \E row \in get_clearance_statuses_by_student_id(student_id) :
                row.status # COMPLETED THEN PENDING
    ELSE COMPLETED

\* routers/clearance.py, the student's own view
format_my_clearance_response(student_id) ==
    IF get_clearance_statuses_by_student_id(student_id) = {} THEN PENDING
    ELSE IF \E row \in get_clearance_statuses_by_student_id(student_id) :
                row.status # COMPLETED THEN PENDING
    ELSE COMPLETED

\* Python's truth value of a status: the enum members are non-empty strings
truth_value(status) == status # ""

\* main.py: overall_status starts True and is cleared by a row whose status
\* is false; the value is the Python bool, written here as its name
overall_status_main(student_id) ==
    IF \E row \in get_clearance_statuses_by_student_id(student_id) :
          ~truth_value(row.status)
    THEN "False" ELSE "True"

\* crud.py summary query: COMPLETED exactly when the count of COMPLETED rows
\* equals the count of rows of the LEFT JOIN
overall_status_summary(student_id) ==
    IF Cardinality({row \in get_clearance_statuses_by_student_id(student_id) :
                        row.status = COMPLETED})
         = Cardinality(get_clearance_statuses_by_student_id(student_id))
    THEN COMPLETED ELSE PENDING

\* GET /api/students/{id} of the routers (admin)
get_student_clearance_endpoint(caller, student_id) ==
    /\ result' =
         IF get_current_active_admin_user_from_token(caller) # 0
         THEN Result("student_detail", get_current_active_admin_user_from_token(caller), NoLog)
         ELSE IF get_student_by_student_id(student_id) = None
         THEN Result("student_detail", 404, NoLog)
         ELSE Result("student_detail", 200,
                     format_student_clearance_details_response(student_id))
    /\ UNCHANGED <<students, users, clearance_statuses, devices, pending_tag_links,
                   next_link_id, now, history, keys_issued, inflight>>

\* GET /api/students/{id} of main.py; the answer is validated against
\* ClearanceDetail, whose overall_status is an OverallClearanceStatusEnum, so
\* a boolean overall status makes the request end in 500
get_student_clearance(student_id) ==
    /\ result' =
         IF get_student_by_student_id(student_id) = None
         THEN Result("student_detail_main", 404, NoLog)
         ELSE Result("student_detail_main",
                     IF overall_status_main(student_id) \in OverallClearanceStatusEnum
                     THEN 200 ELSE 500,
                     overall_status_main(student_id))
    /\ UNCHANGED <<students, users, clearance_statuses, devices, pending_tag_links,
                   next_link_id, now, history, keys_issued, inflight>>

\* the summary query, read for one student's row of its answer
get_students_with_clearance_summary(student_id) ==
    /\ student_id \in DOMAIN students
    /\ result' = Result("clearance_summary", 200, overall_status_summary(student_id))
    /\ UNCHANGED <<students, users, clearance_statuses, devices, pending_tag_links,
                   next_link_id, now, history, keys_issued, inflight>>

\* ------------------------------------------- the ledger, statement by statement
\* Each statement of crud.py commits on its own; a request that has issued
\* some of its statements and not the rest is a row of inflight, keyed by
\* a slot number.  A request takes the lowest free slot.
free_slot ==
    CHOOSE i \in 1..MaxInflight :
        i \notin DOMAIN inflight /\ \A j \in 1..(i - 1) : j \in DOMAIN inflight

\* create-student up to and including the insert of the student row
create_student_insert(student_id, tag_id) ==
    /\ Cardinality(DOMAIN inflight) < MaxInflight
    /\ IF get_student_by_student_id(student_id) # None \/ get_student_by_tag_id(tag_id) # None
       THEN /\ result' = Result("create_student", 400, NoLog)
            /\ UNCHANGED <<students, inflight>>
       ELSE /\ students' = Put(students, student_id, [tag_id |-> tag_id])
            /\ inflight' = Put(inflight, free_slot,
                               [op |-> "create_student", student_id |-> student_id, i |-> 1])
            /\ UNCHANGED result
    /\ UNCHANGED <<users, clearance_statuses, devices, pending_tag_links, next_link_id,
                   now, history, keys_issued>>

\* one turn of the initialization loop of an in-flight create-student
initialize_student_clearance_statuses_step(slot) ==
    /\ slot \in DOMAIN inflight
    /\ inflight[slot].op = "create_student"
    /\ LET r == inflight[slot]
           department == DepartmentOrder[r.i]
       IN IF ~uq_student_department(clearance_statuses, r.student_id, department)
          THEN /\ inflight' = Drop(inflight, slot)
               /\ result' = Result("create_student", 500, NoLog)
               /\ UNCHANGED clearance_statuses
          ELSE /\ clearance_statuses' =
                    insert_clearance_status(clearance_statuses, r.student_id,
                                            department, NOT_COMPLETED)
               /\ IF r.i = Len(DepartmentOrder)
                  THEN /\ inflight' = Drop(inflight, slot)
                       /\ result' = Result("create_student", 201, NoLog)
                  ELSE /\ inflight' = [inflight EXCEPT ![slot].i = r.i + 1]
                       /\ UNCHANGED result
    /\ UNCHANGED <<students, users, devices, pending_tag_links, next_link_id,
                   now, history, keys_issued>>

\* upsert up to and including the select of the existing row
create_or_update_select(student_id, department, status) ==
    /\ Cardinality(DOMAIN inflight) < MaxInflight
    /\ IF get_student_by_student_id(student_id) = None
       THEN /\ result' = Result("update_clearance_main", 404, NoLog)
            /\ UNCHANGED inflight
       ELSE /\ inflight' = Put(inflight, free_slot,
                               [op |-> "update_clearance", student_id |-> student_id,
                                department |-> department, status |-> status,
                                existing_status |->
                                    rows_of(clearance_statuses, student_id, department) # <<>>])
            /\ UNCHANGED result
    /\ UNCHANGED <<students, users, clearance_statuses, devices, pending_tag_links,
                   next_link_id, now, history, keys_issued>>

\* the update or the insert that the select decided on
create_or_update_write(slot) ==
    /\ slot \in DOMAIN inflight
    /\ inflight[slot].op = "update_clearance"
    /\ LET r == inflight[slot]
       IN IF r.existing_status
          THEN /\ clearance_statuses' =
                    IF rows_of(clearance_statuses, r.student_id, r.department) # <<>>
                    THEN [clearance_statuses EXCEPT ![<<r.student_id, r.department>>] =
                             [i \in DOMAIN @ |-> r.status]]
                    ELSE clearance_statuses
               /\ result' = Result("update_clearance_main", 200, NoLog)
          ELSE IF ~uq_student_department(clearance_statuses, r.student_id, r.department)
          THEN /\ result' = Result("update_clearance_main", 500, NoLog)
               /\ UNCHANGED clearance_statuses
          ELSE /\ clearance_statuses' =
                    insert_clearance_status(clearance_statuses, r.student_id,
                                            r.department, r.status)
               /\ result' = Result("update_clearance_main", 200, NoLog)
    /\ inflight' = Drop(inflight, slot)
    /\ UNCHANGED <<students, users, devices, pending_tag_links, next_link_id,
                   now, history, keys_issued>>

\* ------------------------------------------ tag updates, statement by statement
\* the unique index on students.tag_id and the one on users.tag_id: may the
\* row take this tag.  No constraint spans the two tables.
uq_students_tag_id(student_id, tag_id) ==
    \A s \in students_with_tag(tag_id) : s = student_id

uq_users_tag_id(username, tag_id) ==
    \A u \in users_with_tag(tag_id) : u = username

\* update_student_tag_id / update_user_tag_id of crud.py up to and including
\* the two selects of is_tag_id_unique
update_tag_id_check(target_user_type, target_identifier, new_tag_id) ==
    /\ Cardinality(DOMAIN inflight) < MaxInflight
    /\ IF ~is_tag_id_unique(new_tag_id)
       THEN /\ result' = Result(IF target_user_type = STUDENT THEN "link_student_tag"
                                ELSE "link_user_tag", 409, NoLog)
            /\ UNCHANGED inflight
       ELSE /\ inflight' = Put(inflight, free_slot,
                               [op |-> "update_tag_id",
                                target_user_type |-> target_user_type,
                                target_identifier |-> target_identifier,
                                tag_id |-> new_tag_id])
            /\ UNCHANGED result
    /\ UNCHANGED <<students, users, clearance_statuses, devices, pending_tag_links,
                   next_link_id, now, history, keys_issued>>

\* the select of the row, the assignment and the commit; a commit that the
\* table's unique index refuses ends the request in 500
update_tag_id_write(slot) ==
    /\ slot \in DOMAIN inflight
    /\ inflight[slot].op = "update_tag_id"
    /\ LET r == inflight[slot]
       IN IF r.target_user_type = STUDENT THEN
              /\ IF get_student_by_student_id(r.target_identifier) = None THEN
                     /\ result' = Result("link_student_tag", 500, NoLog)
                     /\ UNCHANGED students
                 ELSE IF ~uq_students_tag_id(r.target_identifier, r.tag_id) THEN
                     /\ result' = Result("link_student_tag", 500, NoLog)
                     /\ UNCHANGED students
                 ELSE
                     /\ students' = [students EXCEPT ![r.target_identifier].tag_id = r.tag_id]
                     /\ result' = Result("link_student_tag", 200, NoLog)
              /\ UNCHANGED users
          ELSE
              /\ IF get_user_by_username(r.target_identifier) = None THEN
                     /\ result' = Result("link_user_tag", 500, NoLog)
                     /\ UNCHANGED users
                 ELSE IF ~uq_users_tag_id(r.target_identifier, r.tag_id) THEN
                     /\ result' = Result("link_user_tag", 500, NoLog)
                     /\ UNCHANGED users
                 ELSE
                     /\ users' = [users EXCEPT ![r.target_identifier].tag_id = r.tag_id]
                     /\ result' = Result("link_user_tag", 200, NoLog)
              /\ UNCHANGED students
    /\ inflight' = Drop(inflight, slot)
    /\ UNCHANGED <<clearance_statuses, devices, pending_tag_links, next_link_id,
                   now, history, keys_issued>>

\* ------------------------------------ pending links, statement by statement
\* create_pending_tag_link up to and including the select of an unexpired
\* link of the device
create_pending_tag_link_select(device_pk, target_user_type, target_identifier, initiated_by_user_id) ==
    /\ Cardinality(DOMAIN inflight) < MaxInflight
    /\ IF get_device_by_pk(device_pk) = None \/ ~devices[device_pk].is_active THEN
           /\ result' = Result("prepare", 404, NoLog)
           /\ UNCHANGED inflight
       ELSE IF check_target(target_user_type, target_identifier) # 0 THEN
           /\ result' = Result("prepare", check_target(target_user_type, target_identifier), NoLog)
           /\ UNCHANGED inflight
       ELSE IF device_busy(device_pk) THEN
           /\ result' = Result("prepare", 409, NoLog)
           /\ UNCHANGED inflight
       ELSE
           /\ inflight' = Put(inflight, free_slot,
                              [op |-> "create_pending_tag_link",
                               device_pk |-> device_pk,
                               target_user_type |-> target_user_type,
                               target_identifier |-> target_identifier,
                               initiated_by_user_id |-> initiated_by_user_id])
           /\ UNCHANGED result
    /\ UNCHANGED <<students, users, clearance_statuses, devices, pending_tag_links,
                   next_link_id, now, history, keys_issued>>

\* the insert of the link row and the commit
create_pending_tag_link_insert(slot) ==
    /\ slot \in DOMAIN inflight
    /\ inflight[slot].op = "create_pending_tag_link"
    /\ next_link_id <= MaxLinks
    /\ pending_tag_links' = pending_tag_links \cup
         {[id |-> next_link_id,
           device_pk |-> inflight[slot].device_pk,
           target_user_type |-> inflight[slot].target_user_type,
           target_identifier |-> inflight[slot].target_identifier,
           initiated_by_user_id |-> inflight[slot].initiated_by_user_id,
           expires_at |-> now + ExpiresInMinutes]}
    /\ next_link_id' = next_link_id + 1
    /\ result' = Result("prepare", 202, NoLog)
    /\ inflight' = Drop(inflight, slot)
    /\ UNCHANGED <<students, users, clearance_statuses, devices, now, history, keys_issued>>

\* ------------------------------------------------------- user administration
\* A user row is keyed by its username, which also stands for its id; an
\* update that changes the username moves the row to the new key.
get_user_by_id(user_id) ==
    IF user_id \in DOMAIN users THEN user_id ELSE None

admin_count == Cardinality({u \in DOMAIN users : users[u].role = ADMIN})

update_user(user_id, username, role, department, tag_id, is_active) ==
    /\ IF get_user_by_id(user_id) = None THEN
           /\ result' = Result("update_user", 404, NoLog)
           /\ UNCHANGED users
       ELSE IF username # user_id /\ get_user_by_username(username) # None THEN
           /\ result' = Result("update_user", 400, NoLog)
           /\ UNCHANGED users
       ELSE IF /\ tag_id # None
               /\ tag_id # users[user_id].tag_id
               /\ get_user_by_tag_id(tag_id) # None THEN
           /\ result' = Result("update_user", 400, NoLog)
           /\ UNCHANGED users
       ELSE
           /\ users' = Put(Drop(users, user_id), username,
                           [role |-> role, department |-> department,
                            tag_id |-> tag_id, is_active |-> is_active])
           /\ result' = Result("update_user", 200, NoLog)
    /\ UNCHANGED <<students, clearance_statuses, devices, pending_tag_links,
                   next_link_id, now, history, keys_issued, inflight>>

\* delete_user up to and including the count of the admins; the caller is an
\* admin account
delete_user_check(username_to_delete, current_admin) ==
    /\ Cardinality(DOMAIN inflight) < MaxInflight
    /\ current_admin \in DOMAIN users
    /\ users[current_admin].role = ADMIN
    /\ IF username_to_delete = current_admin THEN
           /\ result' = Result("delete_user", 403, NoLog)
           /\ UNCHANGED inflight
       ELSE IF get_user_by_username(username_to_delete) = None THEN
           /\ result' = Result("delete_user", 404, NoLog)
           /\ UNCHANGED inflight
       ELSE IF users[username_to_delete].role = ADMIN /\ admin_count <= 1 THEN
           /\ result' = Result("delete_user", 403, NoLog)
           /\ UNCHANGED inflight
       ELSE
           /\ inflight' = Put(inflight, free_slot,
                              [op |-> "delete_user",
                               username_to_delete |-> username_to_delete])
           /\ UNCHANGED result
    /\ UNCHANGED <<students, users, clearance_statuses, devices, pending_tag_links,
                   next_link_id, now, history, keys_issued>>

\* the delete of the user's pending links, the delete of the row and the
\* commit; a row that is gone by then makes the commit fail
delete_user_commit(slot) ==
    /\ slot \in DOMAIN inflight
    /\ inflight[slot].op = "delete_user"
    /\ IF inflight[slot].username_to_delete \in DOMAIN users THEN
           /\ users' = Drop(users, inflight[slot].username_to_delete)
           /\ pending_tag_links' =
                {l \in pending_tag_links :
                    l.initiated_by_user_id # inflight[slot].username_to_delete}
           /\ result' = Result("delete_user", 200, NoLog)
       ELSE
           /\ result' = Result("delete_user", 500, NoLog)
           /\ UNCHANGED <<users, pending_tag_links>>
    /\ inflight' = Drop(inflight, slot)
    /\ UNCHANGED <<students, clearance_statuses, devices, next_link_id, now,
                   history, keys_issued>>

Next ==
    \/ \E s \in StudentIds, t \in Tags \cup {None} : create_student(s, t)
    \/ \E s \in StudentIds : delete_student(s)
    \/ \E r \in {STUDENT, STAFF}, t \in Tags \cup {None} : register_user("u2", r, None, t, TRUE)
    \/ \E c \in Usernames, s \in StudentIds, t \in Tags : link_student_tag_endpoint(c, s, t)
    \/ \E c \in Usernames, t \in Tags : link_user_tag_endpoint(c, "u2", t)
    \/ \E d \in DevicePks \cup {"d4"}, id \in StudentIds :
          prepare_device_for_tag_linking_admin("admin", d, STUDENT, id)
    \/ \E d \in DevicePks \cup {"d4"} :
          prepare_device_for_tag_linking_admin("admin", d, STAFF_ADMIN, "u2")
    \/ prepare_device_for_tag_linking_admin("u2", "d1", STUDENT, "s1")
    \/ \E k \in ApiKeys, t \in Tags : submit_scanned_tag_endpoint(k, t)
    \/ \E k \in {"k1", "k2"}, t \in Tags : scan_tag_endpoint(k, "d1", t)
    \/ Tick

Spec == Init /\ [][Next]_vars

\* the same program, with the failed applies recorded
SpecHistory == InitHistory /\ [][Next]_vars

\* the identity store and the clearance ledger, one request at a time
LedgerTags == {"t1", "t2", "t3"}
LedgerDepartments == {"Library", "Bursary"}

NextLedger ==
    \/ \E s \in StudentIds, t \in {None, "t1"} : create_student(s, t)
    \/ \E s \in StudentIds : delete_student(s)
    \/ \E d \in {None, "Library"} : register_user("u2", STAFF, d, "t2", TRUE)
    \/ link_user_tag_endpoint("admin", "admin", "t3")
    \/ \E t \in LedgerTags, s \in StudentIds, d \in LedgerDepartments,
          st \in {COMPLETED, NOT_COMPLETED} : update_clearance_status_endpoint(t, s, d, st)
    \/ \E s \in StudentIds, d \in ClearanceDepartment :
          update_clearance_status("t2", s, d, COMPLETED)

SpecLedger == Init /\ [][NextLedger]_vars

\* create-student and upsert requests, interleaved between their statements
NextInterleaved ==
    \/ create_student_insert("s1", "t1")
    \/ create_student_insert("s2", None)
    \/ \E slot \in 1..MaxInflight : initialize_student_clearance_statuses_step(slot)
    \/ \E d \in LedgerDepartments : create_or_update_select("s1", d, COMPLETED)
    \/ \E slot \in 1..MaxInflight : create_or_update_write(slot)
    \/ \E s \in StudentIds : get_student_clearance_endpoint("admin", s)
    \/ \E s \in StudentIds : get_student_clearance(s)
    \/ \E s \in StudentIds : get_students_with_clearance_summary(s)

SpecInterleaved == Init /\ [][NextInterleaved]_vars

\* devices registering themselves and presenting keys, old and new
IssuedKeys == {token_hex(n) : n \in 1..(MaxKeys + 1)} \cup {token_urlsafe(n) : n \in 1..(MaxKeys + 1)}
RegisteringDevices == {"d1", "d3", "d4"}
HardwareIds == {"d1", "d4", "d5"}

NextDevices ==
    \/ \E d \in RegisteringDevices : register_device(d)
    \/ \E d \in {None, "d1", "d4"} : create_device(d)
    \/ \E c \in Usernames, d \in {"d1", "d5"} : register_new_device_admin(c, d)
    \/ register_user("u2", STAFF, None, None, TRUE)
    \/ \E k \in ApiKeys \cup IssuedKeys, d \in {"d1", "d4"} : scan_tag_endpoint(k, d, "t1")
    \/ \E s \in {"s1"}, t \in {None, "t1"} : create_student(s, t)

SpecDevices == Init /\ [][NextDevices]_vars

\* the three scan routes, with students, a tagged staff user, pending links
\* and devices in registration mode
NextScan ==
    \/ create_student("s1", "t1")
    \/ create_student("s2", None)
    \/ \E c \in Usernames : create_student_endpoint(c, "s2", None)
    \/ register_user("u2", STAFF, None, "t2", TRUE)
    \/ \E d \in {"d1", "d2"} : prepare_device_for_tag_linking_admin("admin", d, STUDENT, "s2")
    \/ set_device_link_for_user("d2", STUDENT, "s2")
    \/ \E k \in {"k1", "k2", "bad"}, d \in {"d1", "d2"}, t \in LedgerTags : scan_tag_endpoint(k, d, t)
    \/ \E k \in {"k1", "bad"}, t \in LedgerTags : scan_tag(k, "d1", t)
    \/ \E d \in {"d1", "d2", "d4"}, t \in LedgerTags : handle_rfid_scan(d, t)

SpecScan == Init /\ [][NextScan]_vars

\* tag updates of students and of a user, interleaved between the
\* uniqueness check and the write
RaceTags == {"t1", "t2"}

NextLinkRace ==
    \/ \E s \in StudentIds : create_student(s, None)
    \/ register_user("u2", STAFF, None, None, TRUE)
    \/ \E s \in StudentIds, t \in RaceTags : update_tag_id_check(STUDENT, s, t)
    \/ \E t \in RaceTags : update_tag_id_check(STAFF_ADMIN, "u2", t)
    \/ \E slot \in 1..MaxInflight : update_tag_id_write(slot)

SpecLinkRace == Init /\ [][NextLinkRace]_vars

\* prepare requests interleaved between the select of an unexpired link and
\* the insert, while links expire
NextPrepareRace ==
    \/ \E s \in StudentIds : create_student(s, None)
    \/ \E d \in DevicePks, s \in StudentIds :
           create_pending_tag_link_select(d, STUDENT, s, "admin")
    \/ \E slot \in 1..MaxInflight : create_pending_tag_link_insert(slot)
    \/ Tick

SpecPrepareRace == Init /\ [][NextPrepareRace]_vars

\* accounts created, updated and deleted; deletes interleaved between the
\* count of the admins and the commit
NextUsers ==
    \/ \E u \in Usernames, r \in {STAFF, ADMIN} : register_user(u, r, None, None, TRUE)
    \/ \E id \in Usernames, u \in Usernames, r \in {STAFF, ADMIN}, a \in BOOLEAN :
           update_user(id, u, r, None, None, a)
    \/ \E t \in Usernames, c \in Usernames : delete_user_check(t, c)
    \/ \E slot \in 1..MaxInflight : delete_user_commit(slot)

SpecUsers == Init /\ [][NextUsers]_vars

\* ================================================================== claims

\* C1: in every reachable state a tag identifier is linked to at most one
\* record, counting the students and the users together.
C1_GlobalTagUniqueness ==
    \A t \in Tags :
        Cardinality({s \in DOMAIN students : students[s].tag_id = t})
          + Cardinality({u \in DOMAIN users : users[u].tag_id = t}) <= 1

C4_LinkSingleUse ==
    [][result'.op = "submit" =>
        \A k \in ApiKeys, t \in Tags :
        submit_scanned_tag_endpoint(k, t)
        => /\ \A l \in pending_tag_links :
                (/\ l.device_pk \in DOMAIN devices
                 /\ devices[l.device_pk].api_key = k
                 /\ l.expires_at > now
                 /\ l.target_user_type = STUDENT
                 /\ l.target_identifier \in DOMAIN students
                 /\ \A s \in DOMAIN students : students[s].tag_id # t
                 /\ \A u \in DOMAIN users : users[u].tag_id # t)
                => /\ result'.status = 200
                   /\ pending_tag_links' = pending_tag_links \ {l}
                   /\ students'[l.target_identifier].tag_id = t
           /\ result'.status = 200
                => \E l \in pending_tag_links :
                     /\ l.expires_at > now
                     /\ pending_tag_links' = pending_tag_links \ {l}
           /\ (/\ result.op = "submit"
               /\ result.status = 200
               /\ result.device \in DOMAIN devices
               /\ devices[result.device].api_key = k)
                => /\ result'.status = 404
                   /\ identity' = identity]_vars

\* C4 witness: a device's submit has applied its link and the device is left
\* without any link, so its next submit is the second one of the claim.
C4_Witness ==
    /\ result.op = "submit"
    /\ result.status = 200
    /\ result.device \in DevicePks
    /\ \A l \in pending_tag_links : l.device_pk # result.device

\* C5: a submit by a verified device that has no unexpired PendingTagLink
\* answers 404 and changes no student, user or link; no submit removes a
\* link that has expired, and a submit that changes a student or a user
\* removes an unexpired one.
C5_NoActiveLinkNotFound ==
    [][result'.op = "submit" =>
        \A k \in ApiKeys, t \in Tags :
        submit_scanned_tag_endpoint(k, t)
        => /\ (/\ \E d \in DOMAIN devices :
                     devices[d].api_key = k /\ devices[d].is_active
               /\ ~ \E l \in pending_tag_links :
                     /\ devices[l.device_pk].api_key = k
                     /\ l.expires_at > now)
                => /\ result'.status = 404
                   /\ identity' = identity
                   /\ pending_tag_links' = pending_tag_links
           /\ \A l \in pending_tag_links :
                l.expires_at <= now => l \in pending_tag_links'
           /\ identity' # identity
                => \E l \in pending_tag_links \ pending_tag_links' :
                     l.expires_at > now]_vars

\* C5 witness: a submit was answered 404 while the device's expired link is
\* still in the table.
C5_Witness ==
    /\ result.op = "submit"
    /\ result.status = 404
    /\ \E l \in pending_tag_links :
         l.device_pk = result.device /\ l.expires_at <= now

\* C6: a submit by a device with an unexpired PendingTagLink, for a tag that
\* some student or user already holds, answers 409, changes no student or
\* user, and leaves the device without an unexpired link.
C6_TagConflictCancelsLink ==
    [][result'.op = "submit" =>
        \A k \in ApiKeys, t \in Tags :
        (/\ submit_scanned_tag_endpoint(k, t)
         /\ \E l \in pending_tag_links :
              devices[l.device_pk].api_key = k /\ l.expires_at > now
         /\ \/ \E s \in DOMAIN students : students[s].tag_id = t
            \/ \E u \in DOMAIN users : users[u].tag_id = t)
        => /\ result'.status = 409
           /\ identity' = identity
           /\ pending_tag_links' \subseteq pending_tag_links
           /\ ~ \E l \in pending_tag_links' :
                  devices[l.device_pk].api_key = k /\ l.expires_at > now]_vars

\* C6 witness: a submit was refused for a tag conflict and the device has no
\* unexpired link left.
C6_Witness ==
    /\ result.op = "submit"
    /\ result.log = "submit_tag_failed_tag_conflict"
    /\ \E s \in DOMAIN students : students[s].tag_id \in Tags
    /\ ~ \E l \in pending_tag_links :
           l.device_pk = result.device /\ l.expires_at > now

\* C7: a PendingTagLink whose apply has failed in a submit is never applied
\* by a later submit.
C7_FailedApplyNeverApplied ==
    [][result'.op = "submit" =>
        \A k \in ApiKeys, t \in Tags :
        (/\ result'.status = 200
         /\ submit_scanned_tag_endpoint(k, t))
        => \A l \in pending_tag_links \ pending_tag_links' :
             l.id \notin failed_apply_ids]_vars

C9_PrepareRefusesTaggedTarget ==
    [][result'.op = "prepare" =>
        \A c \in Usernames, d \in DevicePks,
         tg \in ({STUDENT} \X StudentIds) \cup ({STAFF_ADMIN} \X Usernames) :
        (/\ c \in DOMAIN users
         /\ users[c].is_active
         /\ users[c].role = ADMIN
         /\ devices[d].is_active
         /\ IF tg[1] = STUDENT
            THEN tg[2] \in DOMAIN students /\ students[tg[2]].tag_id # None
            ELSE tg[2] \in DOMAIN users /\ users[tg[2]].tag_id # None
         /\ prepare_device_for_tag_linking_admin(c, d, tg[1], tg[2]))
        => /\ result'.status = 409
           /\ pending_tag_links' = pending_tag_links]_vars

C11_CreateInitializesEveryDepartment ==
    [][(result'.op = "create_student" /\ result'.status = 201) =>
        \A s \in StudentIds :
            (s \notin DOMAIN students /\ s \in DOMAIN students')
            => get_clearance_statuses_by_student_id(s)' =
                 {[department |-> d, n |-> 1, status |-> NOT_COMPLETED] :
                    d \in ClearanceDepartment}]_vars

\* C11 witness: a student was just created next to another student whose
\* rows have been written to, and the new student has the four default rows.
C11_Witness ==
    /\ result.op = "create_student"
    /\ result.status = 201
    /\ \E s \in DOMAIN students, o \in DOMAIN students :
         /\ \A d \in ClearanceDepartment :
                rows_of(clearance_statuses, s, d) = <<NOT_COMPLETED>>
         /\ \E d \in ClearanceDepartment :
                rows_of(clearance_statuses, o, d) = <<COMPLETED>>

\* C12: no state in which no creation of the student is in flight holds a
\* student with fewer than one row per department.
C12_StudentNeverWithoutAllRecords ==
    \A s \in DOMAIN students :
        (\A slot \in DOMAIN inflight :
            ~(inflight[slot].op = "create_student" /\ inflight[slot].student_id = s))
        => \A d \in ClearanceDepartment : rows_of(clearance_statuses, s, d) # <<>>

\* C13: with create-student and upsert requests interleaved between their
\* statements, no (student, department) pair ever has more than one row; the
\* write of an upsert leaves the number of rows of every pair that has one
\* as it is, sets the status in place when its select found the row, and adds
\* a row only for a pair that has none.
C13_OneRecordPerStudentDepartment ==
    /\ [](\A k \in DOMAIN clearance_statuses : Len(clearance_statuses[k]) <= 1)
    /\ [][\A slot \in DOMAIN inflight :
            create_or_update_write(slot)
            => LET r == inflight[slot]
                   k == <<r.student_id, r.department>>
               IN /\ DOMAIN clearance_statuses' \subseteq (DOMAIN clearance_statuses) \cup {k}
                  /\ \A x \in DOMAIN clearance_statuses :
                        /\ x \in DOMAIN clearance_statuses'
                        /\ Len(clearance_statuses'[x]) = Len(clearance_statuses[x])
                        /\ x # k => clearance_statuses'[x] = clearance_statuses[x]
                  /\ (r.existing_status /\ k \in DOMAIN clearance_statuses)
                        => /\ clearance_statuses'[k] = <<r.status>>
                           /\ result'.status = 200
                  /\ k \notin DOMAIN clearance_statuses
                        => /\ ~r.existing_status
                           /\ clearance_statuses'[k] = <<r.status>>]_vars

\* C13 witness: an upsert whose select had found no row came to its insert
\* after another request had inserted the row, and was refused; the pair
\* has its one row.
C13_Witness ==
    /\ result.op = "update_clearance_main"
    /\ result.status = 500
    /\ \E k \in DOMAIN clearance_statuses : Len(clearance_statuses[k]) = 1

\* C14: every place that computes a student's overall status computes
\* COMPLETED exactly when the student has at least one row and every row is
\* COMPLETED, and PENDING otherwise (a Python True standing for COMPLETED and
\* False for PENDING); the scan and self-serve formatters compute the same.
C14_OverallStatusAgrees ==
    [][(result'.op \in {"student_detail", "student_detail_main", "clearance_summary"}
        /\ result'.status # 404) =>
        \A s \in DOMAIN students :
            (\/ get_student_clearance_endpoint("admin", s)
             \/ get_student_clearance(s)
             \/ get_students_with_clearance_summary(s))
            => LET pairs == {k \in DOMAIN clearance_statuses : k[1] = s}
                   expected ==
                      IF /\ pairs # {}
                         /\ \A k \in pairs : \A i \in DOMAIN clearance_statuses[k] :
                                clearance_statuses[k][i] = COMPLETED
                      THEN COMPLETED ELSE PENDING
               IN /\ \/ result'.log = expected
                     \/ result'.log = "True" /\ expected = COMPLETED
                     \/ result'.log = "False" /\ expected = PENDING
                  /\ format_clearance_for_device_scan(s) = expected
                  /\ format_my_clearance_response(s) = expected]_vars

\* C15: when the caller of an upsert presents the tag of an active staff user
\* whose department differs from the target department, and the student
\* exists, the answer is 403 and no clearance row is created or changed.
C15_OtherDepartmentForbidden ==
    [][\A t \in LedgerTags, s \in DOMAIN students, d \in ClearanceDepartment,
         st \in ClearanceStatusEnum :
          (/\ \/ update_clearance_status_endpoint(t, s, d, st)
              \/ update_clearance_status(t, s, d, st)
           /\ get_student_by_tag_id(t) = None
           /\ \E u \in DOMAIN users : /\ users[u].tag_id = t
                                      /\ users[u].role = STAFF
                                      /\ users[u].is_active
                                      /\ users[u].department # d)
          => /\ result'.status = 403
             /\ clearance_statuses' = clearance_statuses]_vars

\* C16: verify_department_access is true for an admin whatever the
\* departments, true for a staff user exactly when the user's department is
\* the target department (so false for a staff user with no department), and
\* false for every other role; the routers upsert answers 403 to a caller that
\* passed the tag gate exactly when it is false.
C16_VerifyDepartmentAccess ==
    /\ [](\A role \in UserRole, ud \in ClearanceDepartment \cup {None},
            td \in ClearanceDepartment :
             verify_department_access(role, ud, td)
               = (role = ADMIN \/ (role = STAFF /\ ud = td)))
    /\ [][result'.op = "update_clearance" =>
          \A t \in LedgerTags, s \in DOMAIN students, d \in LedgerDepartments,
             st \in {COMPLETED, NOT_COMPLETED} :
              (/\ get_current_staff_or_admin_via_tag(t) = 0
               /\ update_clearance_status_endpoint(t, s, d, st))
              => LET u == get_user_by_tag_id(t)
                     allowed == \/ users[u].role = ADMIN
                                \/ users[u].role = STAFF /\ users[u].department = d
                 IN /\ allowed => result'.status = 200
                    /\ ~allowed => /\ result'.status = 403
                                   /\ clearance_statuses' = clearance_statuses]_vars

\* a Library staff user, no student holding a tag, has just been refused
C16_Witness ==
    /\ result.op = "update_clearance"
    /\ result.status = 403
    /\ \A s \in DOMAIN students : students[s].tag_id = None
    /\ \E u \in DOMAIN users : users[u].role = STAFF /\ users[u].department = "Library"

C18_TagOfAnotherStudentConflict ==
    [][result'.op = "link_student_tag" =>
        \A c \in Usernames, s \in StudentIds, t \in Tags :
            (/\ get_current_active_admin_user_from_token(c) = 0
             /\ \E holder \in DOMAIN students \ {s} : students[holder].tag_id = t
             /\ link_student_tag_endpoint(c, s, t))
            => /\ result'.status = 409
               /\ students' = students]_vars

\* a link request has just been refused while one of two students holds a tag,
\* the other holds none and no user holds a tag
C18_Witness ==
    /\ result.op = "link_student_tag"
    /\ result.status = 409
    /\ \A u \in DOMAIN users : users[u].tag_id = None
    /\ \E holder, other \in DOMAIN students :
          /\ students[holder].tag_id # None
          /\ students[other].tag_id = None

C20_ReRegistrationRotatesKey ==
    [][result'.op = "register_device" =>
        \A d \in DOMAIN devices :
            register_device(devices[d].device_id)
            => /\ \A k \in ApiKeys \cup IssuedKeys :
                     k = devices[d].api_key
                     => /\ get_device_by_api_key(k)' = None
                        /\ get_verified_device(k)' = 401
               /\ devices[d].api_key \in ApiKeys \cup IssuedKeys
               /\ {x \in DOMAIN devices' : devices'[x].api_key = result'.log} = {d}
               /\ devices'[d].is_active = devices[d].is_active
               /\ \A k \in ApiKeys \cup IssuedKeys :
                     get_device_by_api_key(k)' = d => k = result'.log]_vars

\* a request has just been refused with 401 while the first key issued is
\* held by no device any more and d1 holds a later one
C20_Witness ==
    /\ result.op = "scan"
    /\ result.status = 401
    /\ keys_issued >= 2
    /\ devices["d1"].api_key \in IssuedKeys \ {token_hex(1)}
    /\ \A d \in DOMAIN devices : devices[d].api_key # token_hex(1)

\* C21: no hardware identifier is held by two device rows, whatever
\* registrations came before; a self-registration of a known identifier adds
\* no row, and creating a device with a known identifier is refused and
\* changes nothing, through the crud function and through the admin route.
C21_OneDevicePerHardwareId ==
    /\ [](\A a, b \in DOMAIN devices :
             (devices[a].device_id = devices[b].device_id /\ devices[a].device_id # None)
             => a = b)
    /\ [][result'.op \in {"register_device", "create_device", "register_device_admin"} =>
          \A h \in HardwareIds :
              (/\ devices_with_device_id(h) # {}
               /\ \/ register_device(h)
                  \/ create_device(h)
                  \/ \E c \in Usernames : register_new_device_admin(c, h))
              => /\ DOMAIN devices' = DOMAIN devices
                 /\ result'.op # "register_device"
                    => (result'.status \notin {200, 201} /\ devices' = devices)]_vars

\* create_device has just been refused for a hardware id that a device which
\* registered itself holds
C21_Witness ==
    /\ result.op = "create_device"
    /\ result.status = 500
    /\ \E pk \in DOMAIN devices \ DevicePks :
          devices[pk].device_id = "d4" /\ devices[pk].api_key \in {token_hex(n) : n \in 1..MaxKeys}

\* C22: a scan that gets as far as looking the tag up answers with the
\* student's clearance detail when a student holds the tag, with a user
\* profile when no student but a user holds it, and with 404 when nobody does.
C22_ScanResolvesStudentThenUser ==
    [][result'.op \in {"scan", "scan_main", "rfid_scan"} =>
        \A t \in LedgerTags :
            (\/ \E k \in {"k1", "k2"} : /\ scan_tag_endpoint(k, devices[get_device_by_api_key(k)].device_id, t)
                                        /\ get_verified_device(k) = 0
             \/ scan_tag("k1", "d1", t)
             \/ \E d \in {"d1", "d2"} : /\ handle_rfid_scan(d, t)
                                        /\ \A pk \in devices_with_device_id(d) :
                                              devices[pk].link_for_user_id = None)
            => IF students_with_tag(t) # {}
               THEN result'.status = 200 /\ result'.body = CLEARANCE_DETAIL
               ELSE IF users_with_tag(t) # {}
               THEN result'.status = 200 /\ result'.body = USER_PROFILE
               ELSE result'.status = 404]_vars

\* C23: a scan, whatever pending link or registration mode the device has,
\* leaves the tag of every student and of every user and every pending link
\* as they were.
C23_ScanWritesNoLinkState ==
    [][result'.op \in {"scan", "scan_main", "rfid_scan"} =>
        ((\/ \E k \in {"k1", "k2", "bad"}, d \in {"d1", "d2"}, t \in LedgerTags :
                scan_tag_endpoint(k, d, t)
          \/ \E k \in {"k1", "bad"}, t \in LedgerTags : scan_tag(k, "d1", t)
          \/ \E d \in {"d1", "d2", "d4"}, t \in LedgerTags : handle_rfid_scan(d, t))
         => /\ DOMAIN students' = DOMAIN students
            /\ \A s \in DOMAIN students : students'[s].tag_id = students[s].tag_id
            /\ DOMAIN users' = DOMAIN users
            /\ \A u \in DOMAIN users : users'[u].tag_id = users[u].tag_id
            /\ pending_tag_links' = pending_tag_links)]_vars

\* C24: every scan request of a device that the route accepts (valid key of
\* an active device, or a known device id where the route takes no key)
\* appends a device log entry, whether the tag is a student's, a user's or
\* nobody's and whether or not the payload's device id matches.
C24_EveryScanIsLogged ==
    [][result'.op \in {"scan", "scan_main", "rfid_scan"} =>
        ((\/ \E k \in {"k1", "k2"}, d \in {"d1", "d2"}, t \in LedgerTags :
                get_verified_device(k) = 0 /\ scan_tag_endpoint(k, d, t)
          \/ \E t \in LedgerTags : scan_tag("k1", "d1", t)
          \/ \E d \in {"d1", "d2"}, t \in LedgerTags : handle_rfid_scan(d, t))
         => result'.log # NoLog)]_vars

\* C25: a create-user request whose caller has not been shown to be an admin
\* is answered 403 and creates no user.  The register route reads no
\* credential, so every request to it is such a request.
C25_CreateUserNeedsAdmin ==
    [][result'.op = "create_user" =>
        \A d \in {None, "Library"} :
            register_user("u2", STAFF, d, "t2", TRUE)
            => /\ result'.status = 403
               /\ users' = users]_vars

\* C26: a create-student request for a new student id by an active caller is
\* answered 201 when the caller's role is admin or staff, and is answered 403
\* and creates nothing when the caller's role is student.
C26_CreateStudentByAdminOrStaff ==
    [][result'.op \in {"create_student", "create_student_endpoint"} =>
        \A c \in Usernames :
            (/\ get_current_active_user(c) = 0
             /\ "s2" \notin DOMAIN students
             /\ create_student_endpoint(c, "s2", None))
            => IF users[c].role \in {ADMIN, STAFF}
               THEN result'.status = 201
               ELSE result'.status = 403 /\ students' = students]_vars

\* C27: however the tag updates of concurrent requests interleave, no tag
\* ends up linked to two records, students and users counted together: of two
\* writes of the same tag at most one succeeds.
C27_ConcurrentLinksKeepTagUnique ==
    \A t \in RaceTags :
        Cardinality(students_with_tag(t)) + Cardinality(users_with_tag(t)) <= 1

\* C28: however prepare requests interleave, no device has two unexpired
\* pending links at once.
C28_OneUnexpiredLinkPerDevice ==
    \A d \in DevicePks : Cardinality(active_links(d)) <= 1

\* C29: an admin request that sets a student's tag to the tag that student
\* already holds is answered 200 and leaves the student rows as they were.
C29_RelinkOwnTagIsIdempotent ==
    [][result'.op = "link_student_tag" =>
        \A c \in Usernames, s \in StudentIds, t \in Tags :
            (/\ get_current_active_admin_user_from_token(c) = 0
             /\ s \in students_with_tag(t)
             /\ link_student_tag_endpoint(c, s, t))
            => /\ result'.status = 200
               /\ students' = students]_vars

\* C30: whatever accounts are deleted and updated, in any order and however
\* the requests interleave, there is always at least one admin account.
C30_AlwaysAnAdmin ==
    admin_count >= 1

====
